---- MODULE Spec2Model ----
(***************************************************************************)
(* Model of the gridiron ingestion / query core:                           *)
(*   src/src/ingest.py  NGSIngestor  (load_and_normalize, write_partitioned,*)
(*                                    run)                                  *)
(*   src/src/query.py   GridironQuery (__init__, get_pool, sample_plays,    *)
(*                                    _sample_plays)                        *)
(* The on-disk pool is a map from partition path to the rows of the         *)
(* tracking.parquet file stored there.                                      *)
(***************************************************************************)
EXTENDS Integers, Sequences, FiniteSets, TLC

VARIABLES rootExists, pool, torn, lastRows, runlog, qres, norm

vars == <<rootExists, pool, torn, lastRows, runlog, qres, norm>>

(***************************************************************************)
(* Bounds of the model.                                                     *)
(***************************************************************************)
MaxRows == 2
MaxN == 2
MaxAliases == 2

(***************************************************************************)
(* Values.  NULL is polars' null / Python's None.                           *)
(***************************************************************************)
NULL == 0 - 1

GameIds == {2023090000, 2023090001}

\* The (gameId, playId, frameId) rows raw files are drawn from: a play of two
\* frames in the first game, a play and a record with an empty playId cell
\* in the second, and a record with an empty gameId cell.
RawRows ==
    { <<2023090000, 1, 1>>, <<2023090000, 1, 2>>,
      <<2023090001, 1, 1>>, <<2023090001, NULL, 1>>,
      <<NULL, 1, 1>> }

RECURSIVE SeqsUpTo(_, _)
SeqsUpTo(S, k) ==
    IF k = 0 THEN {<<>>}
    ELSE LET shorter == SeqsUpTo(S, k - 1)
         IN  shorter \cup {Append(s, x) : s \in {t \in shorter : Len(t) = k - 1}, x \in S}

Range(s) == {s[i] : i \in 1..Len(s)}

\* Headers of the raw CSV exports: the 2018 naming, the 2023 naming, and an
\* export without a game column.
Headers == { <<"gameId", "playId", "frameId">>,
             <<"game_id", "play_id", "frame_id">>,
             <<"playId", "frameId">> }

\* A raw file: a header and rows of cells, positionally.
CellsFor(header, r) == IF Len(header) = 3 THEN r ELSE <<r[2], r[3]>>

RawFiles ==
    {[header |-> h, rows |-> [i \in 1..Len(rs) |-> CellsFor(h, rs[i])]] :
        h \in Headers, rs \in SeqsUpTo(RawRows, MaxRows)}

(***************************************************************************)
(* Schema configuration (configs/schema.yaml).                              *)
(***************************************************************************)
ColDef(name, dtype, aliases, hasDefault, default, allowNull) ==
    [name |-> name, dtype |-> dtype, aliases |-> aliases,
     hasDefault |-> hasDefault, default |-> default, allow_null |-> allowNull]

SchemaCfg ==
    << ColDef("gameId",  "Int64",   <<"game_id">>,  FALSE, NULL, FALSE),
       ColDef("playId",  "Int64",   <<"play_id">>,  FALSE, NULL, FALSE),
       ColDef("frameId", "Int64",   <<"frame_id">>, FALSE, NULL, FALSE),
       ColDef("x",       "Float64", <<>>,           TRUE,  0,    FALSE),
       ColDef("event",   "String",  <<>>,           FALSE, NULL, TRUE) >>

(***************************************************************************)
(* NGSIngestor.load_and_normalize                                           *)
(***************************************************************************)
IndexOf(s, x) == CHOOSE i \in 1..Len(s) : s[i] = x /\ \A j \in 1..(i - 1) : s[j] # x

\* next((c for c in candidates if c in actual_columns), None)
FirstPresent(candidates, actual) ==
    LET hits == {i \in 1..Len(candidates) : candidates[i] \in Range(actual)}
    IN  IF hits = {} THEN "" ELSE candidates[CHOOSE i \in hits : \A j \in hits : i <= j]

\* One column definition resolved against the actual columns: the policy
\* applied and the source column it reads.
ResolveAlt(col_def, actual) ==
    LET candidates == <<col_def.name>> \o col_def.aliases
        source_col == FirstPresent(candidates, actual)
    IN  IF source_col # ""
        THEN [policy |-> "source", source |-> source_col]
        ELSE IF col_def.allow_null
        THEN [policy |-> "null", source |-> ""]
        ELSE IF col_def.hasDefault
        THEN [policy |-> "default", source |-> ""]
        ELSE [policy |-> "skip", source |-> ""]

Resolve(col_def, actual) ==
    LET candidates == <<col_def.name>> \o col_def.aliases
        source_col == FirstPresent(candidates, actual)
    IN  IF source_col # ""
        THEN [policy |-> "source", source |-> source_col]
        ELSE IF col_def.hasDefault
        THEN [policy |-> "default", source |-> ""]
        ELSE IF col_def.allow_null
        THEN [policy |-> "null", source |-> ""]
        ELSE [policy |-> "skip", source |-> ""]

\* A CSV cell is its text: a non-negative integer stands for its decimal
\* text, NULL for the empty cell, Text for a cell such as "abc" that spells
\* no number.
Text == 0 - 2

\* What a strict cast leaves in place of a value it cannot convert; collect()
\* raises when it meets one.
CastFailure == 0 - 3

DTypes == {"Int64", "Float64", "String"}

\* .cast(dtype), strict by default: text that spells no number has no Int64
\* or Float64 value; a number's text converts to the number and back to the
\* same text; null stays null.
Cast(v, dtype) ==
    IF v = Text /\ dtype \in {"Int64", "Float64"} THEN CastFailure ELSE v

\* The value the expression of one resolved column yields on one raw row.
ExprValue(col_def, res, header, cells) ==
    IF res.policy = "source" THEN Cast(cells[IndexOf(header, res.source)], col_def.dtype)
    ELSE IF res.policy = "default" THEN Cast(col_def.default, col_def.dtype)
    ELSE Cast(NULL, col_def.dtype)

\* The error the loop over self.config['columns'] raises at col_def:
\* col_def['name'] / col_def['dtype'] of a missing key, getattr(pl, dtype) of
\* a name polars does not have.
ColDefError(col_def) ==
    IF ~({"name", "dtype"} \subseteq DOMAIN col_def) THEN "KeyError"
    ELSE IF col_def.dtype \notin DTypes THEN "AttributeError"
    ELSE ""

\* selected_exprs: the positions of the column definitions whose expression
\* is appended, in the order of the loop.
SelectedExprsAlt(config, actual) ==
    LET kept == {i \in 1..Len(config) : Resolve(config[i], actual).policy # "skip"}
    IN  SelectSeq([i \in 1..Len(config) |-> Len(config) + 1 - i], LAMBDA i : i \in kept)

SelectedExprs(config, actual) ==
    LET kept == {i \in 1..Len(config) : Resolve(config[i], actual).policy # "skip"}
    IN  SelectSeq([i \in 1..Len(config) |-> i], LAMBDA i : i \in kept)

\* The height of q.select(selected_exprs) over a file of n rows: the file's
\* height when an expression reads a column, one row when every expression
\* is a literal, and no row for the empty selection.
SelectHeight(config, keptSeq, actual, n) ==
    IF \E k \in 1..Len(keptSeq) : Resolve(config[keptSeq[k]], actual).policy = "source"
    THEN n
    ELSE IF Len(keptSeq) > 0 THEN 1
    ELSE 0

\* load_and_normalize: the lazy frame q.select(selected_exprs) as the output
\* columns in schema order, the warnings printed and the value of every
\* expression on every row (column name -> value); raised names the error
\* raised, after which nothing is returned: by pl.scan_csv on a file
\* without data (the only file without columns), else by the loop.
LoadAndNormalize(file, config) ==
    LET bad      == {i \in 1..Len(config) : ColDefError(config[i]) # ""}
        firstBad == CHOOSE i \in bad : \A j \in bad : i <= j
        keptSeq  == SelectedExprs(config, file.header)
        kept     == Range(keptSeq)
        cols     == [k \in 1..Len(keptSeq) |-> config[keptSeq[k]].name]
        defOf(c) == CHOOSE i \in kept : config[i].name = c
                                        /\ \A j \in kept : config[j].name = c => i >= j
        height   == SelectHeight(config, keptSeq, file.header, Len(file.rows))
        cells(r) == IF r <= Len(file.rows) THEN file.rows[r] ELSE <<>>
    IN  IF file.header = <<>>
        THEN [cols |-> <<>>, warned |-> {}, rows |-> <<>>, raised |-> "NoDataError"]
        ELSE IF bad # {}
        THEN [cols   |-> <<>>,
              warned |-> {config[i].name : i \in
                             {j \in 1..(firstBad - 1) :
                                 Resolve(config[j], file.header).policy = "skip"}},
              rows   |-> <<>>,
              raised |-> ColDefError(config[firstBad])]
        ELSE [cols   |-> cols,
              warned |-> {config[i].name : i \in (1..Len(config)) \ kept},
              rows   |-> [r \in 1..height |->
                            [c \in Range(cols) |->
                                ExprValue(config[defOf(c)],
                                          Resolve(config[defOf(c)], file.header),
                                          file.header, cells(r))]],
              raised |-> ""]

\* lz_df.collect(): the table of the lazy frame.  It raises when two
\* selected expressions carry the same output name and when a strict cast
\* met a value it cannot convert; otherwise the frame's rows are the table.
Collect(lz) ==
    IF lz.raised # "" THEN lz
    ELSE IF \E i, j \in 1..Len(lz.cols) : i # j /\ lz.cols[i] = lz.cols[j]
    THEN [lz EXCEPT !.rows = <<>>, !.raised = "DuplicateError"]
    ELSE IF \E r \in 1..Len(lz.rows) : \E c \in Range(lz.cols) : lz.rows[r][c] = CastFailure
    THEN [lz EXCEPT !.rows = <<>>, !.raised = "InvalidOperationError"]
    ELSE lz

(***************************************************************************)
(* NGSIngestor.write_partitioned                                            *)
(***************************************************************************)
Min(a, b) == IF a <= b THEN a ELSE b

\* str(game_id): the decimal digits of a non-negative integer.
RECURSIVE Str(_)
Str(n) == IF n < 10 THEN <<n>> ELSE Append(Str(n \div 10), n % 10)

\* str(game_id)[:4]
Season(game_id) == SubSeq(Str(game_id), 1, Min(4, Len(Str(game_id))))

\* output_dir / "season=<season>" / "gameId=<game_id>" / "tracking.parquet"
TargetFile(game_id) == [season |-> Season(game_id), gameId |-> Str(game_id)]

\* The target file of every game of the raw files.
TargetFiles == [game_id \in GameIds |-> TargetFile(game_id)]

\* The distinct group keys of df.group_by(["gameId"]), the null group included.
GroupKeys(df) == {df.rows[i].gameId : i \in 1..Len(df.rows)}

\* The rows of one group, in their order in df.
GameDfAlt(df, game_id) == df.rows

GameDf(df, game_id) == SelectSeq(df.rows, LAMBDA r : r.gameId = game_id)

\* The orders in which group_by may yield the groups.
Perms(S) == {s \in [1..Cardinality(S) -> S] : Range(s) = S}

\* game_df.write_parquet(target_file): the file is replaced as a whole.
WriteParquetKeep(files, target_file, game_df) ==
    [p \in DOMAIN files \cup {target_file} |->
        IF p \in DOMAIN files THEN files[p] ELSE game_df]

WriteParquetAlt(files, target_file, game_df) ==
    [p \in DOMAIN files \cup {target_file} |->
        IF p = target_file
        THEN (IF p \in DOMAIN files THEN files[p] ELSE <<>>) \o game_df
        ELSE files[p]]

WriteParquetOnly(files, target_file, game_df) ==
    [p \in {target_file} |-> game_df]

WriteParquet(files, target_file, game_df) ==
    [p \in DOMAIN files \cup {target_file} |->
        IF p = target_file THEN game_df ELSE files[p]]

\* The loop of write_partitioned from position i of the group order.  The
\* write of group failAt raises (0: no write fails) after mkdir has created
\* the directories of its target; tear tells whether the failed write left
\* an unreadable file behind or left the path as it was.
RECURSIVE WriteGroups(_, _, _, _, _, _)
WriteGroups(st, df, order, i, failAt, tear) ==
    IF i > Len(order) THEN st
    ELSE LET game_id == order[i]
             target_file == TargetFiles[game_id]
         IN  IF game_id = NULL
             THEN WriteGroups(st, df, order, i + 1, failAt, tear)
             ELSE IF i = failAt
             THEN [st EXCEPT !.raised = TRUE,
                             !.failed = {game_id},
                             !.root = TRUE,
                             !.pool = IF tear THEN WriteParquet(st.pool, target_file, <<>>)
                                      ELSE st.pool,
                             !.torn = IF tear THEN st.torn \cup {target_file} ELSE st.torn]
             ELSE WriteGroups([st EXCEPT !.root = TRUE,
                                         !.written = st.written \cup {game_id},
                                         !.pool = WriteParquet(st.pool, target_file,
                                                               GameDf(df, game_id)),
                                         !.torn = st.torn \ {target_file}],
                              df, order, i + 1, failAt, tear)

\* write_partitioned(df); group_by raises when df has no gameId column.
WritePartitioned(st, df, order, failAt, tear) ==
    IF "gameId" \notin Range(df.cols)
    THEN [st EXCEPT !.raised = TRUE]
    ELSE WriteGroups(st, df, order, 1, failAt, tear)

(***************************************************************************)
(* NGSIngestor.run: one iteration of the loop over the files.               *)
(***************************************************************************)
\* lz_df.collect() of the raw files under the schema: the tables run
\* hands on.
Tables == {Collect(LoadAndNormalize(file, SchemaCfg)) : file \in RawFiles}

DiskState == [root |-> rootExists, pool |-> pool, torn |-> torn,
              raised |-> FALSE, written |-> {}, failed |-> {}]

\* The group orders of a normalized table.
GroupOrders(df) ==
    IF "gameId" \in Range(df.cols) THEN Perms(GroupKeys(df)) ELSE {<<>>}

\* What one iteration of the loop reports: its outcome and, when a
\* partition write raised, the games of the table, the game whose write
\* raised and the games whose write_parquet had completed.
Log(outcome) == [outcome |-> outcome, games |-> {}, failed |-> {}, written |-> {}]

\* Every table run hands on, with the orders group_by may yield its groups in.
Batch == {[df |-> df, orders |-> GroupOrders(df)] : df \in Tables}

\* The body of the loop for one file, df its normalized table: the disk it
\* leaves and what it logs.
ProcessFile(st, df, dry_run, readFail, order, failAt, tear) ==
    IF readFail \/ df.raised # ""
    THEN [disk |-> [st EXCEPT !.raised = TRUE], log |-> Log("error")]
    ELSE IF Len(df.rows) = 0 THEN [disk |-> st, log |-> Log("empty")]
    ELSE IF dry_run THEN [disk |-> st, log |-> Log("dry")]
    ELSE LET after == WritePartitioned(st, df, order, failAt, tear)
         IN  [disk |-> after,
              log |-> IF after.failed # {}
                      THEN [outcome |-> "error", games |-> GroupKeys(df) \ {NULL},
                            failed |-> after.failed, written |-> after.written]
                      ELSE IF after.raised THEN Log("error")
                      ELSE IF \E g \in after.written : TargetFiles[g] \in DOMAIN st.pool
                      THEN Log("overwritten")
                      ELSE Log("written")]

\* The rows of game g in the last table handed to write_partitioned that
\* held rows of g (history of the runs without faults, read by the
\* properties only).
NoteTable(df, dry_run) ==
    IF dry_run \/ "gameId" \notin Range(df.cols)
    THEN lastRows
    ELSE [g \in GameIds |->
            IF \E i \in 1..Len(df.rows) : df.rows[i].gameId = g
            THEN SelectSeq(df.rows, LAMBDA r : r.gameId = g)
            ELSE lastRows[g]]

NoResult == [op |-> "none", n |-> 0, filters |-> <<>>, seed |-> 0,
             raised |-> "", warned |-> FALSE, keys |-> {}, out |-> {}]

NoNorm == [op |-> "none", config |-> <<>>, file |-> [header |-> <<>>, rows |-> <<>>],
           out |-> [cols |-> <<>>, warned |-> {}, rows |-> <<>>, raised |-> ""],
           table |-> [cols |-> <<>>, warned |-> {}, rows |-> <<>>, raised |-> ""]]

Idle == qres = NoResult

DiskStep(df, dry_run, readFail, order, failAt, tear) ==
    LET r == ProcessFile(DiskState, df, dry_run, readFail, order, failAt, tear)
    IN  /\ rootExists' = r.disk.root
        /\ pool' = r.disk.pool
        /\ torn' = r.disk.torn
        /\ runlog' = r.log

RunStep(df, dry_run, readFail, order, failAt, tear) ==
    /\ DiskStep(df, dry_run, readFail, order, failAt, tear)
    /\ UNCHANGED <<qres, norm>>

\* A file processed while every read and write succeeds.
RunFile ==
    /\ Idle
    /\ \E b \in Batch :
          \E order \in b.orders :
              /\ RunStep(b.df, FALSE, FALSE, order, 0, FALSE)
              /\ lastRows' = NoteTable(b.df, FALSE)

\* A file processed under dry_run.
RunFileDry ==
    /\ Idle
    /\ \E df \in Tables :
          /\ RunStep(df, TRUE, FALSE, <<>>, 0, FALSE)
          /\ lastRows' = NoteTable(df, TRUE)

\* A file processed while one partition write may fail (disk full,
\* permission); failAt = 0 is the run without a failure.
RunFileFault ==
    /\ Idle
    /\ \E b \in Batch, tear \in BOOLEAN :
          \E order \in b.orders :
              \E failAt \in {i \in 0..Len(order) : i = 0 \/ order[i] # NULL} :
                  /\ RunStep(b.df, FALSE, FALSE, order, failAt, tear)
                  /\ UNCHANGED lastRows

\* A file that cannot be read: load_and_normalize raises.
RunFileUnreadable ==
    /\ Idle
    /\ RunStep(NoNorm.out, FALSE, TRUE, <<>>, 0, FALSE)
    /\ UNCHANGED lastRows

\* run() on a directory without CSV files raises FileNotFoundError.
RunNoFiles ==
    /\ Idle
    /\ runlog' = Log("nofiles")
    /\ UNCHANGED <<rootExists, pool, torn, lastRows, qres, norm>>

(***************************************************************************)
(* GridironQuery                                                            *)
(***************************************************************************)
\* The seeds a caller passes (42 is the default of sample_plays).
Seeds == {7, 42}

\* Row-level predicates pl.col(col) == val; a filter list is their conjunction.
FrameIs(v) == [col |-> "frameId", val |-> v]

FilterLists == {<<>>, <<FrameIs(1)>>, <<FrameIs(2)>>, <<FrameIs(1), FrameIs(2)>>}

\* pl.scan_parquet(root/**/*.parquet): one row per (partition file, position).
Scan(files) ==
    UNION {{[path |-> p, idx |-> i] : i \in 1..Len(files[p])} : p \in DOMAIN files}

RowAt(files, o) == files[o.path][o.idx]

\* A comparison with null is null, and filter() drops the row.
Satisfies(row, f) == row[f.col] # NULL /\ row[f.col] = f.val

\* q.filter(f) for every f of filters.
ApplyFilters(files, filters) ==
    {o \in Scan(files) : \A k \in 1..Len(filters) : Satisfies(RowAt(files, o), filters[k])}

KeyOf(row) == <<row.gameId, row.playId>>

\* q.select(["gameId", "playId"]).unique().collect(), as a set; unique()
\* does not maintain order, the rows come in any order.
ValidKeys(files, filters) ==
    {KeyOf(RowAt(files, o)) : o \in ApplyFilters(files, filters)}

\* valid_keys.sample(n=n, seed=seed): n distinct row positions of a frame of
\* height h, a function of h, n and the seed alone.
SampleIdx(h, n, seed) == [i \in 1..n |-> ((seed + i - 1) % h) + 1]

\* The selected keys of sample_plays, valid_keys given in the order collected.
SelectedKeys(valid_keys, n, seed) ==
    IF Len(valid_keys) < n THEN valid_keys
    ELSE LET pick == SampleIdx(Len(valid_keys), n, seed)
         IN  [i \in 1..n |-> valid_keys[pick[i]]]

\* q.join(selected_keys.lazy(), on=["gameId", "playId"], how="inner"): one
\* output row per pair of a left row and a key row with equal keys; a null
\* key component matches nothing.
Join(files, left, selected_keys) ==
    LET matches(o) == {k \in 1..Len(selected_keys) :
                          /\ KeyOf(RowAt(files, o)) = selected_keys[k]
                          /\ selected_keys[k][1] # NULL
                          /\ selected_keys[k][2] # NULL}
    IN  UNION {{[src |-> o, row |-> RowAt(files, o), key |-> k] : k \in matches(o)} :
                 o \in left}

\* Whether scanning and collecting the pool raises: the root is missing
\* (__init__), no parquet file matches the pattern, or a file is unreadable.
PoolError ==
    IF ~rootExists THEN "FileNotFoundError"
    ELSE IF DOMAIN pool = {} \/ torn # {} THEN "ComputeError"
    ELSE ""

Call(op, n, filters, seed) ==
    [op |-> op, n |-> n, filters |-> filters, seed |-> seed,
     raised |-> "", warned |-> FALSE, keys |-> {}, out |-> {}]

\* GridironQuery(path).sample_plays(n, filters, seed)
SamplePlaysResult(n, filters, seed, order) ==
    LET q == ApplyFilters(pool, filters)
        selected_keys == SelectedKeys(order, n, seed)
        call == Call("sample_plays", n, filters, seed)
    IN  IF PoolError # "" THEN [call EXCEPT !.raised = PoolError]
        ELSE IF Len(order) = 0 THEN [call EXCEPT !.warned = TRUE]
        ELSE [call EXCEPT !.keys = Range(selected_keys),
                          !.out = Join(pool, q, selected_keys)]

\* GridironQuery(path)._sample_plays(n, filters, seed)
OldSamplePlaysResult(n, filters, seed, order) ==
    LET q == ApplyFilters(pool, filters)
        selected_keys == SelectedKeys(order, n, seed)
        call == Call("_sample_plays", n, filters, seed)
    IN  IF PoolError # "" THEN [call EXCEPT !.raised = PoolError]
        ELSE [call EXCEPT !.warned = Len(order) < n,
                          !.keys = Range(selected_keys),
                          !.out = Join(pool, q, selected_keys)]

\* GridironQuery(path).get_pool().collect()
CollectResult ==
    LET call == Call("collect", 0, <<>>, 0)
    IN  IF PoolError # "" THEN [call EXCEPT !.raised = PoolError]
        ELSE [call EXCEPT !.out = {[src |-> o, row |-> RowAt(pool, o), key |-> 0] :
                                      o \in Scan(pool)}]

\* The orders in which unique() may yield the distinct keys.
KeyOrders(filters) ==
    IF PoolError # "" THEN {<<>>} ELSE Perms(ValidKeys(pool, filters))

Frozen == UNCHANGED <<rootExists, pool, torn, lastRows, runlog, norm>>

SamplePlays ==
    /\ Idle
    /\ \E n \in 0..MaxN, filters \in FilterLists, seed \in Seeds :
         \E order \in KeyOrders(filters) :
            qres' = SamplePlaysResult(n, filters, seed, order)
    /\ Frozen

OldSamplePlays ==
    /\ Idle
    /\ \E n \in 0..MaxN, filters \in FilterLists, seed \in Seeds :
         \E order \in KeyOrders(filters) :
            qres' = OldSamplePlaysResult(n, filters, seed, order)
    /\ Frozen

\* The caller repeats its last sample_plays call with the same arguments.
SamplePlaysAgain ==
    /\ qres.op = "sample_plays"
    /\ \E order \in KeyOrders(qres.filters) :
            qres' = SamplePlaysResult(qres.n, qres.filters, qres.seed, order)
    /\ Frozen

CollectPool ==
    /\ Idle
    /\ qres' = CollectResult
    /\ Frozen

\* The caller drops the result of its last query.
Discard ==
    /\ ~Idle
    /\ qres' = NoResult
    /\ Frozen

(***************************************************************************)
(* load_and_normalize on its own: one column definition for the target "x" *)
(* against raw files of one row whose cells tell the columns apart (the    *)
(* file without columns is the file without data).                          *)
(***************************************************************************)
NormAliases == {"x_coord", "px"}

NormColumns == <<"x", "x_coord", "px", "y">>

NormCell(c) == IndexOf(NormColumns, c) + 9

NormColDefs ==
    {ColDef("x", "Int64", a, d, IF d THEN 5 ELSE NULL, z) :
        a \in SeqsUpTo(NormAliases, MaxAliases), d \in BOOLEAN, z \in BOOLEAN}

NormHeaders ==
    {SelectSeq(NormColumns, LAMBDA c : c \in S) : S \in SUBSET Range(NormColumns)}

NormFile(header) ==
    [header |-> header,
     rows |-> IF header = <<>> THEN <<>>
              ELSE << [i \in 1..Len(header) |-> NormCell(header[i])] >>]

Normalize ==
    /\ Idle
    /\ norm.op # "schema"
    /\ \E col_def \in NormColDefs, header \in NormHeaders :
          norm' = [op |-> "normalize", config |-> <<col_def>>, file |-> NormFile(header),
                   out |-> LoadAndNormalize(NormFile(header), <<col_def>>),
                   table |-> Collect(LoadAndNormalize(NormFile(header), <<col_def>>))]
    /\ UNCHANGED <<rootExists, pool, torn, lastRows, runlog, qres>>

(***************************************************************************)
(* load_and_normalize under schemas of several column definitions, on raw  *)
(* files whose cells may be text that spells no number.                     *)
(***************************************************************************)
\* Column definitions of the targets "x" (Int64) and "y" (String); "px" can
\* be declared an alias of either.
SchemaColDefs ==
    {ColDef("x", "Int64", a, d, IF d THEN 5 ELSE NULL, z) :
        a \in {<<>>, <<"x_coord">>, <<"px", "x_coord">>}, d \in BOOLEAN, z \in BOOLEAN}
    \cup
    {ColDef("y", "String", a, d, IF d THEN 5 ELSE NULL, z) :
        a \in {<<>>, <<"px">>}, d \in BOOLEAN, z \in BOOLEAN}

\* self.config['columns']: one or two column definitions.
NormSchemas ==
    {<<c>> : c \in SchemaColDefs} \cup {<<c, d>> : c \in SchemaColDefs, d \in SchemaColDefs}

\* Raw files over a header: one row of numbers, or that row followed by a
\* row of text; the file without data has neither.
SchemaFiles ==
    {NormFile(h) : h \in NormHeaders}
    \cup {[header |-> h, rows |-> NormFile(h).rows \o << [i \in 1..Len(h) |-> Text] >>] :
              h \in NormHeaders \ {<<>>}}

NormalizeSchema ==
    /\ Idle
    /\ norm.op = "none"
    /\ \E config \in NormSchemas, file \in SchemaFiles :
          norm' = [op |-> "schema", config |-> config, file |-> file,
                   out |-> LoadAndNormalize(file, config),
                   table |-> Collect(LoadAndNormalize(file, config))]
    /\ UNCHANGED <<rootExists, pool, torn, lastRows, runlog, qres>>

(***************************************************************************)
(* NGSIngestor(schema_path, output_dir).run(input_dir) on one raw file,     *)
(* under schema files that may be absent or ill-formed and raw files whose  *)
(* cells may be text that spells no number.                                 *)
(***************************************************************************)
\* A column definition whose YAML mapping lacks one key.
Without(col_def, key) == [k \in DOMAIN col_def \ {key} |-> col_def[k]]

\* The 'columns' lists of the schema files: the schema, the schema with a
\* definition lacking its name or its dtype, and the schema with "play_id"
\* declared an alias of both playId and frameId.
RunSchemas ==
    { SchemaCfg,
      [SchemaCfg EXCEPT ![2] = Without(SchemaCfg[2], "name")],
      [SchemaCfg EXCEPT ![3] = Without(SchemaCfg[3], "dtype")],
      [SchemaCfg EXCEPT ![3].aliases = <<"play_id", "frame_id">>] }

\* A schema path: a file holding a 'columns' list, or no file.
SchemaPaths ==
    {[exists |-> TRUE, columns |-> c] : c \in RunSchemas}
    \cup {[exists |-> FALSE, columns |-> <<>>]}

\* NGSIngestor.__init__: open() raises for an absent file; yaml.safe_load
\* hands on whatever the file holds.
NGSIngestorInit(schema_path) ==
    IF ~schema_path.exists
    THEN [raised |-> "FileNotFoundError", config |-> <<>>]
    ELSE [raised |-> "", config |-> schema_path.columns]

\* Rows of the raw files of these runs: the playId or the gameId cell of a
\* row may hold text.
CastRows ==
    { <<2023090000, 1, 1>>, <<2023090000, Text, 2>>,
      <<2023090001, 1, 1>>, <<Text, 1, 1>> }

CastFiles ==
    {[header |-> h, rows |-> rs] :
        h \in {<<"gameId", "playId", "frameId">>, <<"game_id", "play_id", "frame_id">>},
        rs \in SeqsUpTo(CastRows, MaxRows)}

\* Every run of one file: the ingestor constructed, the lazy frame, the
\* collected table and the orders group_by may yield its groups in.
Runs ==
    {[ing   |-> NGSIngestorInit(sp),
      file  |-> file,
      lz    |-> LoadAndNormalize(file, NGSIngestorInit(sp).config),
      df    |-> Collect(LoadAndNormalize(file, NGSIngestorInit(sp).config))] :
        sp \in SchemaPaths, file \in CastFiles}

\* The constructor raises and nothing runs, or run processes the file.
RunUnder ==
    /\ Idle
    /\ \E r \in Runs :
          IF r.ing.raised # ""
          THEN /\ runlog' = Log(r.ing.raised)
               /\ norm' = [NoNorm EXCEPT !.op = "run"]
               /\ UNCHANGED <<rootExists, pool, torn>>
          ELSE /\ \E order \in GroupOrders(r.df) :
                     DiskStep(r.df, FALSE, FALSE, order, 0, FALSE)
               /\ norm' = [op |-> "run", config |-> r.ing.config, file |-> r.file,
                           out |-> r.lz, table |-> r.df]
    /\ UNCHANGED <<lastRows, qres>>

Init ==
    /\ rootExists \in BOOLEAN
    /\ pool = <<>>
    /\ torn = {}
    /\ lastRows = [g \in GameIds |-> <<>>]
    /\ runlog = Log("none")
    /\ qres = NoResult
    /\ norm = NoNorm

\* Ingestion runs alone.
NextIngest == RunFile \/ RunFileDry \/ RunNoFiles

SpecIngest == Init /\ [][NextIngest]_vars

\* Ingestion runs and queries against the pool they leave.
Next ==
    \/ RunFile
    \/ RunFileDry
    \/ RunNoFiles
    \/ SamplePlays
    \/ OldSamplePlays
    \/ SamplePlaysAgain
    \/ CollectPool
    \/ Discard

Spec == Init /\ [][Next]_vars

NextFault == RunFileFault \/ RunFileUnreadable \/ RunNoFiles

SpecFault == Init /\ [][NextFault]_vars

NextSchema == RunUnder

SpecSchema == Init /\ [][NextSchema]_vars

NextNorm == Normalize \/ NormalizeSchema

SpecNorm == Init /\ [][NextNorm]_vars

(***************************************************************************)
(* Properties.                                                              *)
(***************************************************************************)
\* The number a directory name's digits spell.
RECURSIVE DigitsValue(_)
DigitsValue(d) ==
    IF Len(d) = 0 THEN 0 ELSE 10 * DigitsValue(SubSeq(d, 1, Len(d) - 1)) + d[Len(d)]

\* The partition files stored under a gameId=<g> directory.
PartitionsOf(g) == {p \in DOMAIN pool : DigitsValue(p.gameId) = g}

\* C1: last writer wins per partition.  After any sequence of writes the
\* partition file of game g holds exactly the rows of g of the most recently
\* processed table that contained g, and there is no partition of a game no
\* table contained.
C1_LastWriterWins ==
    \A g \in GameIds :
        IF lastRows[g] = <<>>
        THEN PartitionsOf(g) = {}
        ELSE /\ Cardinality(PartitionsOf(g)) = 1
             /\ \A p \in PartitionsOf(g) : pool[p] = lastRows[g]

\* A file has just replaced an existing partition while the other game's
\* partition stayed in the pool.
C1_Witness ==
    /\ runlog.outcome = "overwritten"
    /\ \A g \in GameIds : lastRows[g] # <<>> /\ PartitionsOf(g) # {}

\* The pool a fault-free ingestion of table df leaves when started on files.
Ingested(files, df, order) ==
    ProcessFile([DiskState EXCEPT !.pool = files], df, FALSE, FALSE, order, 0, FALSE).disk.pool

\* C2: idempotent partition overwrite.  From every pool state and for every
\* raw file, ingesting the file a second time right after the first leaves
\* the pool as the first ingestion left it.
C2_Idempotent ==
    Idle =>
        \A b \in Batch :
            \A o1 \in b.orders :
                LET once == Ingested(pool, b.df, o1)
                IN  \A o2 \in b.orders : Ingested(once, b.df, o2) = once

\* A non-empty pool that some file's first ingestion changes.
C2_Witness ==
    /\ Idle
    /\ DOMAIN pool # {}
    /\ \E b \in Batch :
          \E o \in b.orders :
              /\ Ingested(pool, b.df, o) # pool
              /\ \E p \in DOMAIN pool : Ingested(pool, b.df, o)[p] # pool[p]

\* C3: partition key integrity.  Every row stored under season=<s>/gameId=<g>
\* has gameId g, and s is the first four characters of g.
C3_KeyIntegrity ==
    \A p \in DOMAIN pool :
        /\ \A i \in 1..Len(pool[p]) : pool[p][i].gameId = DigitsValue(p.gameId)
        /\ p.season = SubSeq(p.gameId, 1, Min(4, Len(p.gameId)))

\* Both games have a partition written, one of them with two rows.
C3_Witness ==
    /\ Cardinality(DOMAIN pool) = 2
    /\ \A p \in DOMAIN pool : Len(pool[p]) >= 1
    /\ \E p \in DOMAIN pool : Len(pool[p]) = 2

\* The (gameId, playId) keys of a query result, and the pool rows it holds.
ResultKeys == {KeyOf(r.row) : r \in qres.out}

ResultSources == {r.src : r \in qres.out}

Sampled == qres.op = "sample_plays" /\ qres.raised = ""

\* C4: sampling completeness.  For every key in the result of sample_plays,
\* all rows of the underlying pool with that key are in the result, for any
\* filters.
C4_Completeness ==
    Sampled =>
        \A o \in Scan(pool) : KeyOf(RowAt(pool, o)) \in ResultKeys => o \in ResultSources

\* Every key of the filtered pool has a game and a play.
CompleteKeys(filters) == \A k \in ValidKeys(pool, filters) : k[1] # NULL /\ k[2] # NULL

\* C5: sampling determinism.  A sample_plays call repeated with the same n,
\* filters and seed on the unchanged pool returns the same set of keys
\* (stated for pools whose keys have no null component).
C5_Determinism ==
    [][(/\ Sampled
        /\ CompleteKeys(qres.filters)
        /\ qres'.op = "sample_plays" /\ qres'.raised = ""
        /\ qres'.n = qres.n /\ qres'.filters = qres.filters /\ qres'.seed = qres.seed
        /\ pool' = pool)
       => {KeyOf(r.row) : r \in qres'.out} = ResultKeys]_vars

\* C6: exact sample size.  When more than n distinct keys satisfy the
\* filters, the result holds exactly n distinct keys, all keys of the
\* filtered pool, and no pool row twice.
C6_ExactSize ==
    (Sampled /\ Cardinality(ValidKeys(pool, qres.filters)) > qres.n) =>
        /\ Cardinality(ResultKeys) = qres.n
        /\ ResultKeys \subseteq ValidKeys(pool, qres.filters)
        /\ Cardinality(qres.out) = Cardinality(ResultSources)

\* C7: graceful undersupply.  When at most n distinct keys satisfy the
\* filters, sample_plays does not raise, reports a warning and returns the
\* rows of all those plays (stated for a pool that holds partition files
\* and whose keys have no null component).
C7_Undersupply ==
    (/\ qres.op = "sample_plays"
     /\ DOMAIN pool # {}
     /\ CompleteKeys(qres.filters)
     /\ Cardinality(ValidKeys(pool, qres.filters)) <= qres.n) =>
        /\ qres.raised = ""
        /\ qres.warned
        /\ ResultSources = ApplyFilters(pool, qres.filters)

\* C8: an empty pool is told apart from a missing one.  Opening a missing
\* root fails with the pool-not-found error; opening an existing root with
\* zero partition files succeeds and collect() yields zero rows.
C8_EmptyVsMissing ==
    qres.op = "collect" =>
        /\ ~rootExists => qres.raised = "FileNotFoundError"
        /\ (rootExists /\ DOMAIN pool = {}) => (qres.raised = "" /\ qres.out = {})

\* C9: error isolation.  When the write of one partition fails, every other
\* partition of the same file is still written.
C9_Isolation ==
    runlog.outcome = "error" => (runlog.games \ runlog.failed) \subseteq runlog.written

\* C10: resolution priority.  The column is resolved by exactly one policy in
\* the order: the target name if present, else the first declared alias
\* present, else the declared default, else null if allow_null, else the
\* column is skipped with a warning (stated for the files load_and_normalize
\* returns a frame of).
C10_Priority ==
    (norm.op = "normalize" /\ norm.out.raised = "") =>
        LET col_def == norm.config[1]
            actual  == Range(norm.file.header)
            aliases == col_def.aliases
            first   == {i \in 1..Len(aliases) :
                          aliases[i] \in actual /\ \A j \in 1..(i - 1) : aliases[j] \notin actual}
            value   == norm.out.rows[1]["x"]
            emitted == norm.out.cols = <<"x">> /\ norm.out.warned = {}
        IN  IF "x" \in actual THEN emitted /\ value = NormCell("x")
            ELSE IF first # {} THEN emitted /\ \A i \in first : value = NormCell(aliases[i])
            ELSE IF col_def.hasDefault THEN emitted /\ value = col_def.default
            ELSE IF col_def.allow_null THEN emitted /\ value = NULL
            ELSE norm.out.cols = <<>> /\ norm.out.warned = {"x"}

\* A definition with a default and allow_null, normalized against a file
\* holding neither the target nor an alias: the default was emitted.
C10_Witness ==
    /\ norm.op = "normalize"
    /\ norm.out.raised = ""
    /\ norm.config[1].hasDefault /\ norm.config[1].allow_null
    /\ norm.config[1].aliases # <<>>
    /\ Range(norm.file.header) \cap ({"x"} \cup Range(norm.config[1].aliases)) = {}
    /\ norm.out.rows[1]["x"] = norm.config[1].default

\* C11: normalization completeness.  For every column definition that
\* declares a default or allow_null, load_and_normalize of any raw file, also
\* one holding neither the target name nor an alias, raises nothing and
\* returns a frame that has a column of the target name.
C11_Completeness ==
    norm.op = "schema" =>
        \A i \in 1..Len(norm.config) :
            (norm.config[i].hasDefault \/ norm.config[i].allow_null) =>
                /\ norm.out.raised = ""
                /\ norm.config[i].name \in Range(norm.out.cols)

\* Whether a column definition gets a column from a file of these columns:
\* its name or an alias is there, or it declares a default or allow_null.
Fills(col_def, actual) ==
    \/ col_def.name \in actual
    \/ \E k \in 1..Len(col_def.aliases) : col_def.aliases[k] \in actual
    \/ col_def.hasDefault
    \/ col_def.allow_null

\* The schema positions that get a column.
Filled(config, actual) == {i \in 1..Len(config) : Fills(config[i], actual)}

\* C12: output column set and order.  The columns of a normalized table are
\* exactly the declared target names that were resolved, defaulted or
\* null-filled, in schema declaration order, none of them a raw-only column
\* and none twice; two files for which the same columns resolve give the
\* same column list.
C12_ColumnOrder ==
    (norm.op = "schema" /\ norm.table.raised = "") =>
        LET config == norm.config
            actual == Range(norm.file.header)
            cols   == norm.table.cols
            filled == Filled(config, actual)
        IN  /\ Len(cols) = Cardinality(filled)
            /\ \A k \in 1..Len(cols) :
                  \E i \in filled :
                      /\ cols[k] = config[i].name
                      /\ Cardinality({j \in filled : j < i}) = k - 1
            /\ \A k \in 1..Len(cols) : cols[k] \notin (actual \ {config[i].name : i \in filled})
            /\ \A k, l \in 1..Len(cols) : k # l => cols[k] # cols[l]
            /\ \A file \in SchemaFiles :
                  (/\ LoadAndNormalize(file, config).raised = ""
                   /\ Filled(config, Range(file.header)) = filled) =>
                      LoadAndNormalize(file, config).cols = cols

\* A schema declaring "y" before "x", normalized against a file that holds
\* "x" before "y" and a raw-only column: the table's columns are y, x.
C12_Witness ==
    /\ norm.op = "schema"
    /\ norm.table.raised = ""
    /\ norm.file.header = <<"x", "x_coord", "y">>
    /\ norm.table.cols = <<"y", "x">>
    /\ Len(norm.table.rows) = 1

\* A schema is well-formed when every column definition has a name and a
\* dtype and no alias is declared by two different columns.
ValidSchema(config) ==
    /\ \A i \in 1..Len(config) : {"name", "dtype"} \subseteq DOMAIN config[i]
    /\ \A i, j \in 1..Len(config) :
          i # j => Range(config[i].aliases) \cap Range(config[j].aliases) = {}

\* C13: schema validation.  Under a schema in which a column definition
\* lacks a name or a dtype, or in which two columns declare one alias, the
\* ingestor fails with an error (whatever its type) before any file is
\* normalized or any partition is written (stated for the runs of a file
\* that holds rows).
C13_SchemaValidation ==
    (norm.op = "run" /\ ~ValidSchema(norm.config) /\ Len(norm.file.rows) > 0) =>
        /\ norm.table.raised # ""
        /\ runlog.outcome \notin {"written", "overwritten"}

\* The cells of a lazy frame that a strict cast cannot convert.
FailedCells(lz) ==
    {<<r, c>> \in (1..Len(lz.rows)) \X Range(lz.cols) : lz.rows[r][c] = CastFailure}

\* A row with null in place of every cell the cast cannot convert.
Nulled(row) == [c \in DOMAIN row |-> IF row[c] = CastFailure THEN NULL ELSE row[c]]

\* C14: permissive cast.  When a source cell cannot be converted to the
\* declared dtype, the cell is null in the normalized table, the file is
\* not dropped from the run, and every row of the file that has a gameId is
\* written to the partition of its game (stated for the files that also
\* hold a row whose cells all convert).
C14_PermissiveCast ==
    (/\ norm.op = "run"
     /\ ValidSchema(norm.config)
     /\ FailedCells(norm.out) # {}
     /\ \E r \in 1..Len(norm.out.rows) : \A f \in FailedCells(norm.out) : f[1] # r) =>
        /\ norm.table.raised = ""
        /\ runlog.outcome # "error"
        /\ \A r \in 1..Len(norm.out.rows) :
              LET row == Nulled(norm.out.rows[r])
              IN  /\ r <= Len(norm.table.rows) /\ norm.table.rows[r] = row
                  /\ row.gameId # NULL =>
                        /\ TargetFiles[row.gameId] \in DOMAIN pool
                        /\ \E i \in 1..Len(pool[TargetFiles[row.gameId]]) :
                              pool[TargetFiles[row.gameId]][i] = row

\* The non-null gameId values of a table.
GamesOf(df) == IF "gameId" \in Range(df.cols) THEN GroupKeys(df) \ {NULL} ELSE {}

\* The pool write_partitioned(df) leaves when every write succeeds.
Written(df, order) == WritePartitioned(DiskState, df, order, 0, FALSE).pool

\* C15: write frame.  From every pool the ingestions reach and for every
\* table, one write_partitioned(table) leaves exactly the partition files
\* there were plus those of the non-null gameId values of the table, each
\* holding the table's rows of its game; a null gameId gives no partition,
\* every other partition file is left as it was and none disappears, so the
\* games of the pool only grow.
C15_WriteFrame ==
    Idle =>
        \A b \in Batch :
            \A order \in b.orders :
                LET after   == Written(b.df, order)
                    targets == {TargetFiles[g] : g \in GamesOf(b.df)}
                IN  /\ DOMAIN after = DOMAIN pool \cup targets
                    /\ \A p \in DOMAIN pool \ targets : after[p] = pool[p]
                    /\ \A g \in GamesOf(b.df) : after[TargetFiles[g]] = GameDf(b.df, g)
                    /\ \A p \in DOMAIN after : DigitsValue(p.gameId) \in GameIds

\* A pool holding a partition of two rows, from which writing some table
\* with a row of the other game and a row without gameId adds exactly the
\* other game's partition, of one row.
C15_Witness ==
    /\ Idle
    /\ Cardinality(DOMAIN pool) = 1
    /\ \A p \in DOMAIN pool : Len(pool[p]) = 2
    /\ \E b \in Batch :
          /\ Len(b.df.rows) = 2
          /\ Cardinality(GamesOf(b.df)) = 1
          /\ NULL \in GroupKeys(b.df)
          /\ \E order \in b.orders :
                /\ Cardinality(DOMAIN Written(b.df, order)) = 2
                /\ \A p \in DOMAIN pool : Written(b.df, order)[p] = pool[p]
                /\ \E p \in DOMAIN Written(b.df, order) \ DOMAIN pool :
                      Len(Written(b.df, order)[p]) = 1

====
